---- MODULE Spec2Model ----
(***************************************************************************)
(* Model of libs/genetic-algorithm/src/lib.rs: the chromosome container,   *)
(* roulette-wheel selection, uniform crossover, the "gaussian" mutation    *)
(* and GeneticAlgorithm::evolve, driven by an injected random source.      *)
(*                                                                         *)
(* Numbers.  A gene (f32) is an integer count of 1/WordRange units, so     *)
(* that the product coeff * u of a whole-unit coefficient and a uniform    *)
(* draw u = word/WordRange is again an integer.  f32 keeps a fixed number  *)
(* of significant bits; FRound keeps MantBits of them, round-to-nearest,   *)
(* ties-to-even.  A probability is the rational num/ChanceDen.             *)
(***************************************************************************)
EXTENDS Integers, Sequences, FiniteSets

VARIABLES
    rng,              \* state of the random source handed to every call
    population,       \* the population the driving loop currently holds
    mutation_method,  \* the GaussianMutation value built by new(), or NoMethod
    gen,              \* number of evolve calls the driving loop has made
    last,             \* the last call: its arguments and what it returned
    replica           \* a second driving loop started from the same seed

vars == <<rng, population, mutation_method, gen, last, replica>>

----------------------------------------------------------------------------
(* Bounds of the model *)

WordRange == 4     \* a raw word of the random source is in 0..WordRange-1
MantBits == 3      \* significant bits an f32 of the model keeps
ChanceDen == 2     \* probabilities are multiples of 1/ChanceDen
MaxLen == 2        \* longest chromosome the callers build
MaxPop == 2        \* largest population the callers build
MaxGen == 2        \* evolve calls per driving loop

Words == 0..(WordRange - 1)

Abs(x) == IF x < 0 THEN -x ELSE x

(* K applied to the value of x, x evaluated once *)
Bind(x, K(_)) == CHOOSE y \in {K(v) : v \in {x}} : TRUE

----------------------------------------------------------------------------
(* The random source (rand::RngCore).  Its state determines the whole      *)
(* stream: the state is the next three words, and each draw shifts one     *)
(* word out and a feedback word in.                                        *)

Seeds == Words \X Words \X Words

(* a draw that reads the loop's own random source, not the one passed in *)
RngWordAmbient(r) == rng[1]

RngWord(r) == r[1]

RngNext(r) == <<r[2], r[3], (r[1] + r[2] + r[3] + 1) % WordRange>>

(* Rng::gen_bool(p), p = num/den.  p = 1 answers true without drawing;     *)
(* any other p outside [0,1) panics; otherwise one word w is drawn and     *)
(* the answer is w/WordRange < p.                                          *)
GenBool(r, num, den) ==
    IF num = den THEN [ok |-> TRUE, value |-> TRUE, rng |-> r]
    ELSE IF num < 0 \/ num > den THEN [ok |-> FALSE, value |-> FALSE, rng |-> r]
    ELSE [ok |-> TRUE, value |-> RngWord(r) * den < num * WordRange, rng |-> RngNext(r)]

(* Rng::gen::<f32>(): one word w is drawn, u = w/WordRange is in [0,1).    *)
(* value is the numerator w.                                               *)
GenF32(r) == [value |-> RngWord(r), rng |-> RngNext(r)]

----------------------------------------------------------------------------
(* f32 arithmetic *)

RECURSIVE Pow2(_)
Pow2(n) == IF n = 0 THEN 1 ELSE 2 * Pow2(n - 1)

RECURSIVE Ulp(_)
Ulp(m) == IF m < Pow2(MantBits) THEN 1 ELSE 2 * Ulp(m \div 2)

FRound(x) ==
    LET m == Abs(x)
        u == Ulp(m)
        q == m \div u
        rem == m % u
        up == (2 * rem > u) \/ (2 * rem = u /\ q % 2 = 1)
        mag == IF up THEN (q + 1) * u ELSE q * u
    IN  IF x < 0 THEN -mag ELSE mag

Representable(x) == FRound(x) = x

----------------------------------------------------------------------------
(* Chromosome and the Individual used by the callers *)

NoMethod == [kind |-> "none"]

FromIter(genes) == [genes |-> genes]

ChromosomeLen(c) == Len(c.genes)

Create(chromosome) == [chromosome |-> chromosome]

RECURSIVE SumGenes(_, _)
SumGenes(genes, n) ==
    IF n = 0 THEN 0 ELSE FRound(SumGenes(genes, n - 1) + genes[n])

Fitness(individual) ==
    SumGenes(individual.chromosome.genes, Len(individual.chromosome.genes))

----------------------------------------------------------------------------
(* RouletteWheelSelection::select = choose_weighted(..).expect(..) *)

RECURSIVE Cumulative(_, _)
Cumulative(pop, i) ==
    IF i = 0 THEN 0 ELSE FRound(Cumulative(pop, i - 1) + Fitness(pop[i]))

(* a partition point that stops at a cumulative weight equal to the draw *)
PassedOverStrict(cum, total, word) == cum * WordRange < total * word

(* the partition-point test of the weighted index: the cumulative weight   *)
(* cum is passed over when cum <= chosen, chosen = total * word/WordRange  *)
PassedOver(cum, total, word) == cum * WordRange <= total * word

ChooseWeighted(r, pop) ==
    LET n == Len(pop)
        total == Cumulative(pop, n)
    IN  IF n = 0 THEN [ok |-> FALSE, error |-> "NoItem", index |-> 0, rng |-> r]
        ELSE IF \E i \in 1..n : Fitness(pop[i]) < 0
             THEN [ok |-> FALSE, error |-> "InvalidWeight", index |-> 0, rng |-> r]
        ELSE IF total = 0
             THEN [ok |-> FALSE, error |-> "AllWeightsZero", index |-> 0, rng |-> r]
        ELSE LET d == GenF32(r)
                 before == {i \in 1..(n - 1) :
                              PassedOver(Cumulative(pop, i), total, d.value)}
             IN  [ok |-> TRUE, error |-> "", index |-> Cardinality(before) + 1,
                  rng |-> d.rng]

(* expect(): an Err of any kind is a panic; Ok is the chosen element *)
Select(r, pop) ==
    LET c == ChooseWeighted(r, pop)
    IN  [panicked |-> ~c.ok, index |-> c.index, rng |-> c.rng]

----------------------------------------------------------------------------
(* UniformCrossover::crossover *)

(* crossover without its assertion: zip stops at the shorter parent *)
SameLengthUnchecked(a, b) == TRUE

SameLength(a, b) == ChromosomeLen(a) = ChromosomeLen(b)

(* a crossover that blends the two alleles on tails *)
PickBlend(heads, a, b) == IF heads THEN a ELSE (a + b) \div 2

Pick(heads, a, b) == IF heads THEN a ELSE b

Min(x, y) == IF x < y THEN x ELSE y

(* zip(..).map(..) over positions i..n, collecting behind acc *)
RECURSIVE CrossGenes(_, _, _, _, _, _)
CrossGenes(r, a, b, i, n, acc) ==
    IF i > n THEN [genes |-> acc, rng |-> r]
    ELSE LET coin == GenBool(r, 1, 2)
         IN  CrossGenes(coin.rng, a, b, i + 1, n,
                        Append(acc, Pick(coin.value, a.genes[i], b.genes[i])))

Crossover(r, a, b) ==
    IF ~SameLength(a, b)
    THEN [panicked |-> TRUE, child |-> FromIter(<<>>), rng |-> r]
    ELSE LET z == CrossGenes(r, a, b, 1, Min(ChromosomeLen(a), ChromosomeLen(b)), <<>>)
         IN  [panicked |-> FALSE, child |-> FromIter(z.genes), rng |-> z.rng]

----------------------------------------------------------------------------
(* GaussianMutation *)

(* new() with its first assertion only *)
ValidChanceLowerOnly(chance) == chance >= 0

ValidChance(chance) == chance >= 0 /\ chance <= ChanceDen

(* new(): both assertions, then the value *)
New(chance, coeff) ==
    IF ValidChance(chance)
    THEN [panicked |-> FALSE, value |-> [kind |-> "gaussian", chance |-> chance, coeff |-> coeff]]
    ELSE [panicked |-> TRUE, value |-> NoMethod]

Sign(negative) == IF negative THEN -1 ELSE 1

(* chance taken as the probability of leaving the gene alone *)
ShouldMutateInverted(r, chance) == GenBool(r, ChanceDen - chance, ChanceDen)

ShouldMutate(r, chance) == GenBool(r, chance, ChanceDen)

(* a uniform draw taken from (0,1] *)
PerturbationClosed(sign, coeff, word) == FRound(sign * coeff * (word + 1))

(* sign * coeff * u in f32, u = word/WordRange, coeff in whole units: the   *)
(* product counted in gene units is sign * coeff * word                    *)
Perturbation(sign, coeff, word) == FRound(sign * coeff * word)

(* *gene += delta, in f32 *)
Perturb(gene, delta) == FRound(gene + delta)

(* the loop over iter_mut(), from gene i on; added lists what was added to *)
(* each gene so far (0 for a gene left alone)                              *)
RECURSIVE MutateGenes(_, _, _, _, _, _)
MutateGenes(r, genes, i, chance, coeff, added) ==
    IF i > Len(genes)
    THEN [panicked |-> FALSE, genes |-> genes, rng |-> r, added |-> added]
    ELSE Bind(GenBool(r, 1, 2), LAMBDA s :
           Bind(ShouldMutate(s.rng, chance), LAMBDA m :
             IF ~m.ok
             THEN [panicked |-> TRUE, genes |-> genes, rng |-> m.rng, added |-> added]
             ELSE IF m.value
             THEN Bind(GenF32(m.rng), LAMBDA u :
                    Bind(Perturbation(Sign(s.value), coeff, u.value), LAMBDA delta :
                      MutateGenes(u.rng, [genes EXCEPT ![i] = Perturb(@, delta)],
                                  i + 1, chance, coeff, Append(added, delta))))
             ELSE MutateGenes(m.rng, genes, i + 1, chance, coeff, Append(added, 0))))

Mutate(r, child, method) ==
    Bind(MutateGenes(r, child.genes, 1, method.chance, method.coeff, <<>>), LAMBDA g :
      [panicked |-> g.panicked, child |-> [child EXCEPT !.genes = g.genes],
       rng |-> g.rng, added |-> g.added])

----------------------------------------------------------------------------
(* GeneticAlgorithm::evolve *)

(* evolve without its assertion *)
NonEmptyUnchecked(pop) == TRUE

NonEmpty(pop) == Len(pop) > 0

(* a range that starts at 1 and still excludes its end *)
SlotCountShort(pop) == Len(pop) - 1

SlotCount(pop) == Len(pop)

(* a crossover that builds the child in the storage of parent a *)
ChildPlaceInParent(pop, ia, ib) == ia

(* Where the child of one slot lives.  The chromosomes of the input slice  *)
(* are places 1..Len(pop); crossover collects into a new Chromosome, the   *)
(* place after them, whichever parents were selected.                      *)
ChildPlace(pop, ia, ib) == Len(pop) + 1

(* the chromosomes of the input slice, with the child at its place *)
Store(pop, place, child) ==
    [i \in 1..(Len(pop) + 1) |->
        IF i = place THEN child
        ELSE IF i <= Len(pop) THEN pop[i].chromosome ELSE FromIter(<<>>)]

(* the input slice as a write through &mut child leaves it *)
Kept(pop, memory) == [i \in 1..Len(pop) |-> [pop[i] EXCEPT !.chromosome = memory[i]]]

SlotPanic(r, pop, ops, pair) ==
    [panicked |-> TRUE, rng |-> r, population |-> pop, ops |-> ops, pair |-> pair,
     individual |-> Create(FromIter(<<>>))]

(* One pass of the closure: select, select, crossover, mutate, create.     *)
(* ops lists the calls made, pair the indices of the two parents selected, *)
(* population is the input slice as the pass leaves it.                    *)
EvolveSlot(r, pop, method) ==
    Bind(Select(r, pop), LAMBDA sa :
      IF sa.panicked THEN SlotPanic(sa.rng, pop, <<"select">>, <<>>)
      ELSE Bind(Select(sa.rng, pop), LAMBDA sb :
        IF sb.panicked THEN SlotPanic(sb.rng, pop, <<"select", "select">>, <<>>)
        ELSE Bind(Crossover(sb.rng, pop[sa.index].chromosome, pop[sb.index].chromosome),
                  LAMBDA cx :
          IF cx.panicked
          THEN SlotPanic(cx.rng, pop, <<"select", "select", "crossover">>,
                         <<sa.index, sb.index>>)
          ELSE Bind(ChildPlace(pop, sa.index, sb.index), LAMBDA place :
            Bind(Store(pop, place, cx.child), LAMBDA memory :
              Bind(Mutate(cx.rng, memory[place], method), LAMBDA mu :
                Bind([memory EXCEPT ![place] = mu.child], LAMBDA after :
                  IF mu.panicked
                  THEN SlotPanic(mu.rng, Kept(pop, after),
                                 <<"select", "select", "crossover", "mutate">>,
                                 <<sa.index, sb.index>>)
                  ELSE [panicked |-> FALSE, rng |-> mu.rng,
                        population |-> Kept(pop, after),
                        ops |-> <<"select", "select", "crossover", "mutate", "create">>,
                        pair |-> <<sa.index, sb.index>>,
                        individual |-> Create(after[place])])))))))

(* (0..len).map(closure).collect(): slots i..n, children collected in out. *)
(* A panic unwinds: the children built so far are dropped, nothing is      *)
(* returned.                                                               *)
RECURSIVE EvolveSlots(_, _, _, _, _, _, _, _)
EvolveSlots(r, pop, method, i, n, out, ops, pairs) ==
    IF i > n
    THEN [panicked |-> FALSE, rng |-> r, population |-> pop, output |-> out,
          built |-> Len(out), ops |-> ops, pairs |-> pairs]
    ELSE Bind(EvolveSlot(r, pop, method), LAMBDA s :
           Bind([out |-> Append(out, s.individual), ops |-> ops \o s.ops,
                 pairs |-> IF s.pair = <<>> THEN pairs ELSE Append(pairs, s.pair)],
                LAMBDA acc :
             IF s.panicked
             THEN [panicked |-> TRUE, rng |-> s.rng, population |-> s.population,
                   output |-> <<>>, built |-> Len(out), ops |-> acc.ops,
                   pairs |-> acc.pairs]
             ELSE EvolveSlots(s.rng, s.population, method, i + 1, n,
                              acc.out, acc.ops, acc.pairs)))

(* assert!(!population.is_empty()), then the slots *)
Evolve(r, pop, method) ==
    IF ~NonEmpty(pop)
    THEN [panicked |-> TRUE, rng |-> r, population |-> pop, output |-> <<>>,
          built |-> 0, ops |-> <<>>, pairs |-> <<>>]
    ELSE EvolveSlots(r, pop, method, 1, SlotCount(pop), <<>>, <<>>, <<>>)

----------------------------------------------------------------------------
(* What the callers pass in *)

RECURSIVE SeqsUpTo(_, _)
SeqsUpTo(S, n) ==
    IF n = 0 THEN {<<>>}
    ELSE LET shorter == SeqsUpTo(S, n - 1)
         IN  shorter \cup {Append(q, x) : q \in {p \in shorter : Len(p) = n - 1}, x \in S}

Genes == {-4, 0, 8}

Chromosomes == {FromIter(g) : g \in SeqsUpTo(Genes, MaxLen)}

ParentsA == {FromIter(g) : g \in SeqsUpTo({0, 4}, MaxLen)}

ParentsB == {FromIter(g) : g \in SeqsUpTo({4, 8}, MaxLen)}

Stock == {Create(FromIter(g)) : g \in {<<0>>, <<4>>, <<-4>>, <<4, 8>>}}

Populations == SeqsUpTo(Stock, MaxPop)

Chances == (-1)..(ChanceDen + 1)

Coeffs == {-1, 0, 1}

TwinMethods == {New(c, 1).value : c \in {1, ChanceDen}}

LoopSeeds == {r \in Seeds : r[3] = 0}

Idle == [op |-> "none", panicked |-> FALSE]

----------------------------------------------------------------------------
(* The calls *)

(* GaussianMutation::new(chance/ChanceDen, coeff) *)
Construct ==
    /\ last.op = "none"
    /\ mutation_method = NoMethod
    /\ \E chance \in Chances, coeff \in Coeffs :
         \E c \in {New(chance, coeff)} :
             /\ mutation_method' = c.value
             /\ last' = [op |-> "new", panicked |-> c.panicked,
                         chance |-> chance, coeff |-> coeff]
    /\ UNCHANGED <<rng, population, gen, replica>>

(* population = ga.evolve(&mut rng, &population) *)
CallEvolve ==
    /\ last.op # "select"
    /\ ~last.panicked
    /\ mutation_method # NoMethod
    /\ gen < MaxGen
    /\ \E e \in {Evolve(rng, population, mutation_method)} :
           /\ rng' = e.rng
           /\ population' = IF e.panicked THEN population ELSE e.output
           /\ last' = [op |-> "evolve", panicked |-> e.panicked, input |-> population,
                       kept |-> e.population, output |-> e.output,
                       built |-> e.built, ops |-> e.ops, pairs |-> e.pairs]
    /\ gen' = gen + 1
    /\ UNCHANGED <<mutation_method, replica>>

(* the same loop, run a second time from the same seed and population *)
ReplicaEvolve ==
    /\ ~replica.last.panicked
    /\ mutation_method # NoMethod
    /\ replica.gen < MaxGen
    /\ \E e \in {Evolve(replica.rng, replica.population, mutation_method)} :
           replica' = [rng |-> e.rng,
                       population |-> IF e.panicked THEN replica.population ELSE e.output,
                       gen |-> replica.gen + 1,
                       last |-> [op |-> "evolve", panicked |-> e.panicked,
                                 input |-> replica.population, kept |-> e.population,
                                 output |-> e.output, built |-> e.built, ops |-> e.ops,
                                 pairs |-> e.pairs]]
    /\ UNCHANGED <<rng, population, mutation_method, gen, last>>

(* RouletteWheelSelection.select(&mut rng, &population) *)
CallSelect ==
    /\ last.op = "none"
    /\ \E s \in {Select(rng, population)} :
           /\ rng' = s.rng
           /\ last' = [op |-> "select", panicked |-> s.panicked, input |-> population,
                       index |-> s.index, drew |-> rng # s.rng]
    /\ UNCHANGED <<population, mutation_method, gen, replica>>

(* UniformCrossover.crossover(&mut rng, &parent_a, &parent_b) *)
CallCrossover ==
    /\ last.op = "none"
    /\ \E a \in ParentsA, b \in ParentsB :
         \E c \in {Crossover(rng, a, b)} :
             /\ rng' = c.rng
             /\ last' = [op |-> "crossover", panicked |-> c.panicked,
                         parent_a |-> a, parent_b |-> b, child |-> c.child]
    /\ UNCHANGED <<population, mutation_method, gen, replica>>

(* mutation_method.mutate(&mut rng, &mut child) *)
CallMutate ==
    /\ last.op = "new"
    /\ ~last.panicked
    /\ \E child \in Chromosomes :
         \E m \in {Mutate(rng, child, mutation_method)} :
             /\ rng' = m.rng
             /\ last' = [op |-> "mutate", panicked |-> m.panicked,
                         chance |-> mutation_method.chance,
                         coeff |-> mutation_method.coeff,
                         before |-> child, child |-> m.child, added |-> m.added]
    /\ UNCHANGED <<population, mutation_method, gen, replica>>

----------------------------------------------------------------------------
(* The driving loop: build the mutation, then evolve generation after      *)
(* generation.                                                             *)

Init ==
    /\ rng \in LoopSeeds
    /\ population \in Populations
    /\ mutation_method = NoMethod
    /\ gen = 0
    /\ last = Idle
    /\ replica = [rng |-> rng, population |-> population, gen |-> 0, last |-> Idle]

Next == Construct \/ CallSelect \/ CallEvolve

Spec == Init /\ [][Next]_vars

(* The operators called one at a time on arguments of the caller's choice *)

UnitInit ==
    /\ rng \in Seeds
    /\ population = <<>>
    /\ mutation_method = NoMethod
    /\ gen = 0
    /\ last = Idle
    /\ replica = [rng |-> rng, population |-> population, gen |-> 0, last |-> Idle]

UnitNext == Construct \/ CallCrossover \/ CallMutate

UnitSpec == UnitInit /\ [][UnitNext]_vars

(* Two driving loops sharing one GeneticAlgorithm, started alike *)

TwinInit ==
    /\ rng \in LoopSeeds
    /\ population \in Populations
    /\ mutation_method \in TwinMethods
    /\ gen = 0
    /\ last = Idle
    /\ replica = [rng |-> rng, population |-> population, gen |-> 0, last |-> Idle]

TwinNext == CallEvolve \/ ReplicaEvolve

TwinSpec == TwinInit /\ [][TwinNext]_vars

----------------------------------------------------------------------------
(* Properties of the driving loop (Spec).  In Spec the replica never runs: *)
(* it holds the seed and the population the loop started from.             *)

Genome(individual) == individual.chromosome.genes

EvolveReturned == last.op = "evolve" /\ ~last.panicked

(* C1: a successful evolve returns exactly as many candidates as it was    *)
(* given, so after any number of successive calls the population has the   *)
(* size it started with.                                                   *)
SizeInvariance ==
    /\ EvolveReturned =>
         /\ Len(last.output) = Len(last.input)
         /\ population = last.output
    /\ ~last.panicked => Len(population) = Len(replica.population)

SizeInvarianceWitness ==
    /\ EvolveReturned
    /\ gen = MaxGen
    /\ Len(population) = MaxPop

(* C5: select and evolve on an empty population fail at once: nothing is   *)
(* chosen or returned, and evolve fails before any select, crossover,      *)
(* mutate or create and before any draw.                                   *)
EmptyRejected ==
    /\ (last.op = "select" /\ last.input = <<>>) =>
         /\ last.panicked
         /\ last.index = 0
         /\ ~last.drew
    /\ (last.op = "evolve" /\ last.input = <<>>) =>
         /\ last.panicked
         /\ last.output = <<>>
         /\ last.ops = <<>>
         /\ last.built = 0
         /\ population = <<>>
         /\ rng = replica.rng

EmptyRejectedWitness ==
    /\ last.op = "evolve"
    /\ last.input = <<>>
    /\ last.panicked

(* C7: evolve leaves every candidate of its input with the genome it had,  *)
(* whether it returns or panics: mutation writes to the new child only.    *)
InputUntouched ==
    last.op = "evolve" => last.kept = last.input

InputUntouchedWitness ==
    /\ EvolveReturned
    /\ \E i \in 1..Len(last.output) :
         /\ last.ops[5 * i - 1] = "mutate"
         /\ \A j \in 1..Len(last.input) : Genome(last.output[i]) # Genome(last.input[j])

MismatchedPair(k) ==
    Len(Genome(last.input[last.pairs[k][1]])) # Len(Genome(last.input[last.pairs[k][2]]))

(* C9: an evolve call returns a whole population of the input's size or    *)
(* nothing at all; a slot whose two parents differ in length fails in      *)
(* crossover, it is the last slot started, and nothing is returned.        *)
NoPartialFailure ==
    last.op = "evolve" =>
        /\ IF last.panicked
           THEN last.output = <<>> /\ population = last.input
           ELSE Len(last.output) = Len(last.input) /\ last.built = Len(last.input)
        /\ \A k \in 1..Len(last.pairs) :
             MismatchedPair(k) =>
                 /\ last.panicked
                 /\ k = Len(last.pairs)
                 /\ last.ops[Len(last.ops)] = "crossover"

NoPartialFailureWitness ==
    /\ last.op = "evolve"
    /\ last.panicked
    /\ last.built >= 1
    /\ Len(last.pairs) = last.built + 1
    /\ MismatchedPair(Len(last.pairs))

NoNegative(pop) == \A i \in 1..Len(pop) : Fitness(pop[i]) >= 0

SomePositive(pop) == \E i \in 1..Len(pop) : Fitness(pop[i]) > 0

----------------------------------------------------------------------------
(* Properties of the single calls (UnitSpec) *)

(* C3: for parents of equal length crossover returns a child of that       *)
(* length whose gene at every position is the gene of parent a or of       *)
(* parent b at that position.                                              *)
CrossoverAlleleOrigin ==
    (last.op = "crossover" /\ Len(last.parent_a.genes) = Len(last.parent_b.genes)) =>
        /\ ~last.panicked
        /\ Len(last.child.genes) = Len(last.parent_a.genes)
        /\ \A i \in 1..Len(last.child.genes) :
             last.child.genes[i] \in {last.parent_a.genes[i], last.parent_b.genes[i]}

CrossoverAlleleOriginWitness ==
    /\ last.op = "crossover"
    /\ ~last.panicked
    /\ Len(last.child.genes) = 2
    /\ last.parent_a.genes[1] # last.parent_b.genes[1]
    /\ last.parent_a.genes[2] # last.parent_b.genes[2]
    /\ last.child.genes[1] = last.parent_a.genes[1]
    /\ last.child.genes[2] = last.parent_b.genes[2]

(* C4: mutate returns the genome it was given, gene for gene, when chance  *)
(* is 0 whatever the coefficient and when the coefficient is 0 whatever    *)
(* the chance.                                                             *)
MutationNoOp ==
    (last.op = "mutate" /\ (last.chance = 0 \/ last.coeff = 0)) =>
        /\ ~last.panicked
        /\ last.child = last.before

MutationNoOpWitness ==
    /\ last.op = "mutate"
    /\ last.chance = ChanceDen
    /\ last.coeff = 0
    /\ Len(last.before.genes) = MaxLen
    /\ last.child = last.before

(* C6: new() fails exactly for a chance below 0 or above 1, builds the     *)
(* value with the arguments given otherwise, and every mutate call runs    *)
(* with a chance in [0,1].                                                 *)
ConstructionValidates ==
    /\ last.op = "new" =>
         /\ last.panicked <=> (last.chance < 0 \/ last.chance > ChanceDen)
         /\ last.panicked => mutation_method = NoMethod
         /\ ~last.panicked =>
              mutation_method = [kind |-> "gaussian", chance |-> last.chance,
                                 coeff |-> last.coeff]
    /\ mutation_method # NoMethod =>
         (mutation_method.chance >= 0 /\ mutation_method.chance <= ChanceDen)
    /\ last.op = "mutate" =>
         (last.chance >= 0 /\ last.chance <= ChanceDen /\ ~last.panicked)

ConstructionValidatesWitness ==
    /\ last.op = "new"
    /\ last.chance > ChanceDen
    /\ last.panicked

GeneChange(i) == last.child.genes[i] - last.before.genes[i]

(* C8 as stated, for the coefficients c >= 0: with chance 1 and            *)
(* coefficient c every gene changes by an absolute amount in [0, c).       *)
MutationBoundsAsStated ==
    (last.op = "mutate" /\ last.chance = ChanceDen /\ last.coeff >= 0) =>
        \A i \in 1..Len(last.before.genes) :
            /\ Abs(GeneChange(i)) >= 0
            /\ Abs(GeneChange(i)) < last.coeff * WordRange

(* C8 amended: with chance 1 and coefficient c what is added to a gene     *)
(* has a magnitude in [0, |c|) when c # 0 and is 0 when c = 0; the gene    *)
(* changes by exactly that amount whenever the sum is representable, and   *)
(* not at all when c = 0.                                                  *)
MutationBounds ==
    (last.op = "mutate" /\ last.chance = ChanceDen) =>
        /\ ~last.panicked
        /\ Len(last.child.genes) = Len(last.before.genes)
        /\ \A i \in 1..Len(last.before.genes) :
             /\ last.coeff = 0 => GeneChange(i) = 0
             /\ last.coeff # 0 => Abs(last.added[i]) < Abs(last.coeff) * WordRange
             /\ Representable(last.before.genes[i] + last.added[i]) =>
                  GeneChange(i) = last.added[i]

MutationBoundsWitness ==
    /\ last.op = "mutate"
    /\ last.chance = ChanceDen
    /\ last.coeff = 1
    /\ \E i \in 1..Len(last.before.genes) :
         /\ GeneChange(i) # 0
         /\ Abs(GeneChange(i)) < WordRange

(* a gene whose change reaches c although less than c was added *)
RoundedPastCoefficient ==
    /\ last.op = "mutate"
    /\ last.chance = ChanceDen
    /\ last.coeff = 1
    /\ \E i \in 1..Len(last.before.genes) :
         /\ Abs(last.added[i]) < WordRange
         /\ Abs(GeneChange(i)) >= WordRange

----------------------------------------------------------------------------
(* Properties of the two loops (TwinSpec) *)

====
